---- MODULE Spec2Model ----
(***************************************************************************)
(* Model of the two programs of dhcp_miner:                                *)
(*   dhcpspy.py        monitorLeases, the lease poll loop (SpecSpy)        *)
(*   MiceAndMenSpy.py  main / getInfoBlockForNetwork / CreateCsvFiles,     *)
(*                     the reservation miner (SpecMiner)                   *)
(* Each program is a specification of its own over its own variables; the  *)
(* variables of the other program stay at their initial values.            *)
(***************************************************************************)
EXTENDS Integers, Sequences, FiniteSets, TLC

VARIABLES
    \* ---- dhcpspy.py, monitorLeases ----
    interval,           \* parameter: seconds between polls (whole seconds here)
    alwaysSendAllData,  \* parameter
    previousLeases,     \* local: the retained snapshot, macAddr -> lease
    dhcpLeases,         \* local: the snapshot acquired by the latest getLeases
    pc,                 \* position: "loop", "sleep", "returned", "raised"
    calls,              \* fnHandleUpdates invocations of the latest iteration
    iter,               \* iterations begun so far (saturates at MaxIter)
    sleeps,             \* time.sleep calls so far (saturates at MaxIter)
    retainedBefore,     \* history: previousLeases when the latest iteration began
    priorLeases,        \* history: dhcpLeases when the latest iteration began
    seenMacs,           \* history: the addresses of all snapshots acquired so far
    acquireFailed,      \* history: getLeases has raised
    \* ---- MiceAndMenSpy.py, main ----
    OUI_MAP,            \* global: category -> list of prefixes (ordered dict)
    networks,           \* main: lab -> list of networks (ordered dict)
    labIdx,             \* main: position in networks.items()
    netIdx,             \* main: position in networkList
    blockMap,           \* main: lab -> network -> classification result
    labMap,             \* main: retMap, the report returned by CreateCsvFiles
    totals,             \* main: lab -> category -> total of the summary
    mpc,                \* position: "fetch", "store", "csv", "summary", "done", ...
    lastCall            \* the frame of getInfoBlockForNetwork where it returned
                        \* or raised: its inputs and its retMap

spyVars == <<interval, alwaysSendAllData, previousLeases, dhcpLeases, pc,
             calls, iter, sleeps, retainedBefore, priorLeases, seenMacs,
             acquireFailed>>
minerVars == <<OUI_MAP, networks, labIdx, netIdx, blockMap, labMap, totals, mpc,
               lastCall>>
vars == <<spyVars, minerVars>>

(***************************************************************************)
(* Bounds                                                                  *)
(***************************************************************************)
MaxStart == 2      \* lease start timestamps are 1..MaxStart
MaxIter == 2       \* the iteration and sleep counters saturate here

Min(a, b) == IF a < b THEN a ELSE b

(***************************************************************************)
(* dhcpspy.py                                                              *)
(***************************************************************************)
LeaseMacs == {"m1", "m2"}
LeaseIps == {"10.0.0.1", "10.0.0.2"}
Intervals == {-1, 0, 1, 2}

\* The empty dict.
EmptyMap == <<>>

\* A lease as the lease-file parser yields it; get_current() yields only
\* leases whose binding state is active.
FileLeases == [ip : LeaseIps, binding_state : {"active"}, start : 1..MaxStart,
               end : {MaxStart + 1}]

\* The current leases of a lease file: macAddr -> lease, for any set of macs.
CurrentLeases == UNION {[S -> FileLeases] : S \in SUBSET LeaseMacs}

\* LeaseObject: the three fields getLeases copies.
LeaseObject(lease) ==
    [ip |-> lease.ip, binding_state |-> lease.binding_state, start |-> lease.start]

\* getLeases on an existing file whose current leases are currentLeases.
getLeases(currentLeases) ==
    [macAddr \in DOMAIN currentLeases |-> LeaseObject(currentLeases[macAddr])]

SendAllIgnoringFlag == Cardinality(DOMAIN previousLeases) = 0

\* The branch condition of the loop body: first poll or always-full.
SendAll == Cardinality(DOMAIN previousLeases) = 0 \/ alwaysSendAllData

IsUpdatedAnyField(macAddr, lease, previous) ==
    macAddr \notin DOMAIN previous \/ lease # previous[macAddr]

\* The test of the delta loop: macAddr is new, or its start changed.
IsUpdated(macAddr, lease, previous) ==
    macAddr \notin DOMAIN previous \/ lease.start # previous[macAddr].start

UpdatedNewLeasesWithRemoved(leases, previous) ==
    LET upd == {m \in DOMAIN leases : IsUpdated(m, leases[m], previous)}
    IN  [m \in upd \cup (DOMAIN previous \ DOMAIN leases) |->
            IF m \in DOMAIN leases THEN leases[m] ELSE previous[m]]

UpdatedNewLeasesNewOnly(leases, previous) ==
    [m \in DOMAIN leases \ DOMAIN previous |-> leases[m]]

\* updatedNewLeases after the for loop over dhcpLeases.  The loop writes
\* previous[macAddr] only after testing macAddr, and tests each key once, so
\* every test reads the value previous had before the loop.
UpdatedNewLeases(leases, previous) ==
    LET upd == {m \in DOMAIN leases : IsUpdated(m, leases[m], previous)}
    IN  [m \in upd |-> leases[m]]

MergeNotStored(previous, updated) == previous

MergeKeepingOld(previous, updated) ==
    [m \in DOMAIN previous \cup DOMAIN updated |->
        IF m \in DOMAIN previous THEN previous[m] ELSE updated[m]]

MergeDroppingAbsent(previous, updated) ==
    [m \in DOMAIN updated |-> updated[m]]

\* previousLeases after the for loop: the updated entries written in place.
MergeInto(previous, updated) ==
    [m \in DOMAIN previous \cup DOMAIN updated |->
        IF m \in DOMAIN updated THEN updated[m] ELSE previous[m]]

\* One fnHandleUpdates(leaseMap, isDelta) invocation.
Call(leaseMap, isDelta) == [leaseMap |-> leaseMap, isDelta |-> isDelta]

EmitsDeltaAlways(updated) == TRUE

\* Whether the delta branch invokes the sink.
EmitsDelta(updated) == Cardinality(DOMAIN updated) > 0

OneShotOnlyZero == interval = 0

\* The one-shot test after the full emission.
OneShot == interval < 1

InitSpy ==
    /\ interval \in Intervals
    /\ alwaysSendAllData \in BOOLEAN
    /\ previousLeases = EmptyMap
    /\ dhcpLeases = EmptyMap
    /\ pc = "loop"
    /\ calls = <<>>
    /\ iter = 0
    /\ sleeps = 0
    /\ retainedBefore = EmptyMap
    /\ priorLeases = EmptyMap
    /\ seenMacs = {}
    /\ acquireFailed = FALSE

GetLeasesRaisesAndRetries ==
    /\ pc = "loop"
    /\ pc' = "sleep"
    /\ acquireFailed' = TRUE
    /\ iter' = Min(iter + 1, MaxIter)
    /\ calls' = <<>>
    /\ UNCHANGED <<interval, alwaysSendAllData, previousLeases, dhcpLeases, sleeps,
                   retainedBefore, priorLeases, seenMacs>>
    /\ UNCHANGED minerVars

\* getLeases raises FileNotFoundError: the exception leaves monitorLeases.
GetLeasesRaises ==
    /\ pc = "loop"
    /\ pc' = "raised"
    /\ acquireFailed' = TRUE
    /\ iter' = Min(iter + 1, MaxIter)
    /\ calls' = <<>>
    /\ UNCHANGED <<interval, alwaysSendAllData, previousLeases, dhcpLeases, sleeps,
                   retainedBefore, priorLeases, seenMacs>>
    /\ UNCHANGED minerVars

\* One iteration through the first branch: full emission.
PollFull ==
    /\ pc = "loop"
    /\ SendAll
    /\ \E currentLeases \in CurrentLeases :
        /\ dhcpLeases' = getLeases(currentLeases)
        /\ calls' = <<Call(dhcpLeases', FALSE)>>
        /\ IF OneShot
             THEN pc' = "returned" /\ UNCHANGED previousLeases
             ELSE pc' = "sleep" /\ previousLeases' = dhcpLeases'
    /\ iter' = Min(iter + 1, MaxIter)
    /\ retainedBefore' = previousLeases
    /\ priorLeases' = dhcpLeases
    /\ seenMacs' = seenMacs \cup DOMAIN dhcpLeases'
    /\ UNCHANGED <<interval, alwaysSendAllData, sleeps, acquireFailed>>
    /\ UNCHANGED minerVars

\* One iteration through the else branch: delta emission.
PollDelta ==
    /\ pc = "loop"
    /\ ~SendAll
    /\ \E currentLeases \in CurrentLeases :
        /\ dhcpLeases' = getLeases(currentLeases)
        /\ IF ~alwaysSendAllData
             THEN LET updatedNewLeases == UpdatedNewLeases(dhcpLeases', previousLeases)
                  IN  /\ previousLeases' = MergeInto(previousLeases, updatedNewLeases)
                      /\ calls' = IF EmitsDelta(updatedNewLeases)
                                    THEN <<Call(updatedNewLeases, TRUE)>>
                                    ELSE <<>>
             ELSE /\ calls' = <<Call(dhcpLeases', FALSE)>>
                  /\ UNCHANGED previousLeases
    /\ pc' = "sleep"
    /\ iter' = Min(iter + 1, MaxIter)
    /\ retainedBefore' = previousLeases
    /\ priorLeases' = dhcpLeases
    /\ seenMacs' = seenMacs \cup DOMAIN dhcpLeases'
    /\ UNCHANGED <<interval, alwaysSendAllData, sleeps, acquireFailed>>
    /\ UNCHANGED minerVars

\* time.sleep(interval), then back to the top of the loop.
Sleep ==
    /\ pc = "sleep"
    /\ pc' = "loop"
    /\ sleeps' = Min(sleeps + 1, MaxIter)
    /\ UNCHANGED <<interval, alwaysSendAllData, previousLeases, dhcpLeases, calls, iter,
                   retainedBefore, priorLeases, seenMacs, acquireFailed>>
    /\ UNCHANGED minerVars

(***************************************************************************)
(* Python values                                                           *)
(* A dict is the sequence of its <<key, value>> items in insertion order.  *)
(* A str that the program slices or compares by content is the sequence    *)
(* of its characters.                                                      *)
(***************************************************************************)
RECURSIVE DictIndex(_, _, _)
DictIndex(d, k, i) ==
    IF i > Len(d) THEN 0
    ELSE IF d[i][1] = k THEN i
    ELSE DictIndex(d, k, i + 1)

\* k in d
DictHas(d, k) == DictIndex(d, k, 1) # 0

\* d[k]
DictGet(d, k) == d[DictIndex(d, k, 1)][2]

\* d[k] = v: a present key keeps its place, a new key goes last.
DictPut(d, k, v) ==
    IF DictHas(d, k)
      THEN [d EXCEPT ![DictIndex(d, k, 1)] = <<k, v>>]
      ELSE Append(d, <<k, v>>)

\* list(d)
DictKeys(d) == [i \in 1..Len(d) |-> d[i][1]]

\* str.lower() on one character of the alphabet used here.
LowerChar(c) ==
    CASE c = "A" -> "a"
      [] c = "B" -> "b"
      [] c = "C" -> "c"
      [] c = "D" -> "d"
      [] OTHER -> c

\* str.lower()
Lower(str) == [i \in 1..Len(str) |-> LowerChar(str[i])]

\* str[:n]
Prefix(str, n) == SubSeq(str, 1, Min(n, Len(str)))

\* a in b, for strings
Contains(b, a) ==
    \E i \in 0..(Len(b) - Len(a)) : SubSeq(b, i + 1, i + Len(a)) = a

(***************************************************************************)
(* MiceAndMenSpy.py                                                        *)
(***************************************************************************)
MaxRecords == 2    \* a reservation list holds at most MaxRecords records
TicksPerMonth == 1 \* length of a month in clock ticks
WindowMonths == 12 \* relativedelta(months=12)

\* The hardware addresses of the reservation records; the empty one is a
\* record that never had a client.
MacAddrs == {<<>>, <<"A", "b">>, <<"c">>}

\* datetime.now() of a call lies in Now0..Now0+1.
Now0 == 20
Nows == {Now0, Now0 + 1}

\* A lastSeenDate text: one that strptime parses to time t, or one it rejects.
\* The times are the two around the latest checkDate: the earlier one is
\* recent for a call at Now0 only, the later one for every call.
DateTexts ==
    {[ok |-> TRUE, t |-> t] :
        t \in (Now0 - WindowMonths * TicksPerMonth + 1)..(Now0 - WindowMonths * TicksPerMonth + 2)}
    \cup {[ok |-> FALSE, t |-> 0]}

IpamRecords == [lastKnownClientIdentifier : MacAddrs, lastSeenDate : DateTexts]

RECURSIVE SeqsUpTo(_, _)
SeqsUpTo(S, n) ==
    IF n = 0 THEN {<<>>}
    ELSE LET shorter == SeqsUpTo(S, n - 1)
         IN  shorter \cup {Append(q, x) : q \in {r \in shorter : Len(r) = n - 1}, x \in S}

\* respData['ipamRecords'] of one network.
RecordLists == SeqsUpTo(IpamRecords, MaxRecords)

\* The OUI tables main may load (an unreadable file gives the empty table).
OuiTables ==
    { <<>>,
      << <<"VM", << <<"a", "B">> >> >>, <<"PDU", << <<"d">>, <<"a">> >> >> >>,
      << <<"PDU", << <<"d">>, <<"a">> >> >>, <<"VM", << <<"a", "B">> >> >> >> }

\* The network lists main may load: lab -> list of networks.
NetworkLists ==
    { <<>>,
      << <<"L1", <<"N1">> >> >>,
      << <<"L1", <<"N1", "N2">> >> >>,
      << <<"L1", <<"N1">> >>, <<"L2", <<"N2">> >> >> }

\* checkDate = datetime.now() - relativedelta(months=12)
CheckDate(now) == now - WindowMonths * TicksPerMonth

ParsesAnything(text) == TRUE

\* datetime.strptime(text, inpFormat) succeeds
Parses(text) == text.ok

\* datetime.strptime(text, inpFormat)
Strptime(text) == text.t

IsRecentInclusive(lastSeen, checkDate) == lastSeen >= checkDate

\* lastSeen > checkDate
IsRecent(lastSeen, checkDate) == lastSeen > checkDate

MatchesPrefixCaseSensitive(macID, macAddr) ==
    Contains(Prefix(macAddr, Len(macID)), macID)

\* macID.lower() in macAddr[:len(macID)].lower()
MatchesPrefix(macID, macAddr) ==
    Contains(Lower(Prefix(macAddr, Len(macID))), Lower(macID))

\* Some macID of the category's list matches.
CategoryMatches(macIDs, macAddr) ==
    \E i \in 1..Len(macIDs) : MatchesPrefix(macIDs[i], macAddr)

RECURSIVE ClassifyLoopEveryMatch(_, _, _, _, _, _)
ClassifyLoopEveryMatch(retMap, ouiMap, macAddr, record, foundMatch, i) ==
    IF i > Len(ouiMap) THEN [retMap |-> retMap, foundMatch |-> foundMatch]
    ELSE LET ouiType == ouiMap[i][1]
             r1 == IF DictHas(retMap, ouiType) THEN retMap
                   ELSE DictPut(retMap, ouiType, <<>>)
             hit == CategoryMatches(ouiMap[i][2], macAddr)
             r2 == IF hit
                     THEN DictPut(r1, ouiType, DictPut(DictGet(r1, ouiType), macAddr, record))
                     ELSE r1
         IN  ClassifyLoopEveryMatch(r2, ouiMap, macAddr, record, foundMatch \/ hit, i + 1)

\* The for loop over OUI_MAP: every category gets its (empty) dict, and the
\* first category that matches gets the record; foundMatch tells whether one did.
RECURSIVE ClassifyLoop(_, _, _, _, _, _)
ClassifyLoop(retMap, ouiMap, macAddr, record, foundMatch, i) ==
    IF i > Len(ouiMap) THEN [retMap |-> retMap, foundMatch |-> foundMatch]
    ELSE LET ouiType == ouiMap[i][1]
             r1 == IF DictHas(retMap, ouiType) THEN retMap
                   ELSE DictPut(retMap, ouiType, <<>>)
             hit == ~foundMatch /\ CategoryMatches(ouiMap[i][2], macAddr)
             r2 == IF hit
                     THEN DictPut(r1, ouiType, DictPut(DictGet(r1, ouiType), macAddr, record))
                     ELSE r1
         IN  ClassifyLoop(r2, ouiMap, macAddr, record, foundMatch \/ hit, i + 1)

\* The body of the record loop for a recent record: classify, then 'All'.
StoreRecord(retMap, ouiMap, record) ==
    LET macAddr == record.lastKnownClientIdentifier
        c == ClassifyLoop(retMap, ouiMap, macAddr, record, FALSE, 1)
        r1 == IF ~c.foundMatch
                THEN DictPut(c.retMap, "Other",
                             DictPut(DictGet(c.retMap, "Other"), macAddr, record))
                ELSE c.retMap
    IN  DictPut(r1, "All", DictPut(DictGet(r1, "All"), macAddr, record))

\* The record loop from record i on.  raised: strptime raised ValueError.
RECURSIVE RecordLoop(_, _, _, _, _)
RecordLoop(retMap, ouiMap, records, checkDate, i) ==
    IF i > Len(records) THEN [raised |-> FALSE, retMap |-> retMap]
    ELSE LET record == records[i]
         IN  IF Len(record.lastKnownClientIdentifier) > 0
               THEN IF ~Parses(record.lastSeenDate)
                      THEN [raised |-> TRUE, retMap |-> retMap]
                      ELSE IF IsRecent(Strptime(record.lastSeenDate), checkDate)
                             THEN RecordLoop(StoreRecord(retMap, ouiMap, record),
                                             ouiMap, records, checkDate, i + 1)
                             ELSE RecordLoop(retMap, ouiMap, records, checkDate, i + 1)
               ELSE RecordLoop(retMap, ouiMap, records, checkDate, i + 1)

\* retMap as getInfoBlockForNetwork creates it.
NewRetMap == << <<"Other", <<>> >>, <<"All", <<>> >> >>

\* getInfoBlockForNetwork: hasRange says whether the info block names a range.
getInfoBlockForNetwork(hasRange, records, now, ouiMap) ==
    IF ~hasRange
      THEN [raised |-> FALSE, retMap |-> NewRetMap]
      ELSE RecordLoop(NewRetMap, ouiMap, records, CheckDate(now), 1)

\* The innermost loop of CreateCsvFiles, over the macs of one category of
\* one subnet.  st = [subnetMap, labMacs].
RECURSIVE CsvMacLoop(_, _, _, _, _)
CsvMacLoop(st, subnet, type, macs, i) ==
    IF i > Len(macs) THEN st
    ELSE LET macAddr == macs[i]
             byNet == DictGet(st.subnetMap, type)
             byNet1 == IF DictHas(byNet, subnet) THEN byNet
                       ELSE DictPut(byNet, subnet, <<subnet>>)
             byNet2 == DictPut(byNet1, subnet, Append(DictGet(byNet1, subnet), macAddr))
             sm == DictPut(st.subnetMap, type, byNet2)
             st1 ==
                IF DictHas(st.labMacs, macAddr)
                  THEN LET seen == Append(DictGet(st.labMacs, macAddr), subnet)
                       IN  [subnetMap |->
                                DictPut(sm, "Duplicates",
                                        DictPut(DictGet(sm, "Duplicates"), macAddr, seen)),
                            labMacs |-> DictPut(st.labMacs, macAddr, seen)]
                  ELSE [subnetMap |-> sm,
                        labMacs |-> DictPut(st.labMacs, macAddr, <<subnet>>)]
         IN  CsvMacLoop(st1, subnet, type, macs, i + 1)

\* The loop over the categories of one subnet's classification result.
RECURSIVE CsvTypeLoop(_, _, _, _)
CsvTypeLoop(st, subnet, result, j) ==
    IF j > Len(result) THEN st
    ELSE LET type == result[j][1]
             st1 == IF DictHas(st.subnetMap, type) THEN st
                    ELSE [st EXCEPT !.subnetMap = DictPut(st.subnetMap, type, <<>>)]
         IN  CsvTypeLoop(CsvMacLoop(st1, subnet, type, DictKeys(result[j][2]), 1),
                         subnet, result, j + 1)

\* The loop over the subnets of one lab.
RECURSIVE CsvSubnetLoop(_, _, _)
CsvSubnetLoop(st, labBlock, k) ==
    IF k > Len(labBlock) THEN st
    ELSE CsvSubnetLoop(CsvTypeLoop(st, labBlock[k][1], labBlock[k][2], 1), labBlock, k + 1)

\* subnetMap of one lab.
LabReport(labBlock) ==
    CsvSubnetLoop([subnetMap |-> << <<"Duplicates", <<>> >> >>, labMacs |-> <<>>],
                  labBlock, 1).subnetMap

\* CreateCsvFiles: lab -> category -> subnet -> [subnet, mac, ...], and
\* lab -> 'Duplicates' -> mac -> [subnet, ...].
CreateCsvFiles(bm) == [l \in 1..Len(bm) |-> <<bm[l][1], LabReport(bm[l][2])>>]

RECURSIVE SumLens(_, _)
SumLens(subnetList, i) ==
    IF i > Len(subnetList) THEN 0
    ELSE Len(subnetList[i][2]) + SumLens(subnetList, i + 1)

\* total of one category in the summary of main.
CategoryTotal(type, subnetList) ==
    IF type = "Duplicates" THEN Len(subnetList) ELSE SumLens(subnetList, 1)

\* The totals of the summary: lab -> category -> total.
Summary(report) ==
    [l \in 1..Len(report) |->
        <<report[l][1],
          [t \in 1..Len(report[l][2]) |->
              <<report[l][2][t][1],
                CategoryTotal(report[l][2][t][1], report[l][2][t][2])>>]>>]

\* No frame of getInfoBlockForNetwork.
NoCall ==
    [network |-> "", hasRange |-> FALSE, records |-> <<>>, now |-> Now0,
     retMap |-> <<>>]

\* The frame of getInfoBlockForNetwork(network, ...) at its return or raise.
CallFrame(network, hasRange, records, now, retMap) ==
    [network |-> network, hasRange |-> hasRange, records |-> records, now |-> now,
     retMap |-> retMap]

\* blockMap[lab][network] = reservationBlockInfo
StoreBlock(bm, lab, network, info) ==
    LET bm1 == IF DictHas(bm, lab) THEN bm ELSE DictPut(bm, lab, <<>>)
    IN  DictPut(bm1, lab, DictPut(DictGet(bm1, lab), network, info))

InitMinerIdle ==
    /\ OUI_MAP = <<>>
    /\ networks = <<>>
    /\ labIdx = 1
    /\ netIdx = 1
    /\ blockMap = <<>>
    /\ labMap = <<>>
    /\ totals = <<>>
    /\ mpc = "idle"
    /\ lastCall = NoCall

InitSpyIdle ==
    /\ interval = 0
    /\ alwaysSendAllData = FALSE
    /\ previousLeases = EmptyMap
    /\ dhcpLeases = EmptyMap
    /\ pc = "idle"
    /\ calls = <<>>
    /\ iter = 0
    /\ sleeps = 0
    /\ retainedBefore = EmptyMap
    /\ priorLeases = EmptyMap
    /\ seenMacs = {}
    /\ acquireFailed = FALSE

\* main before it reads its files.
InitMiner ==
    /\ OUI_MAP = <<>>
    /\ networks = <<>>
    /\ labIdx = 1
    /\ netIdx = 1
    /\ blockMap = <<>>
    /\ labMap = <<>>
    /\ totals = <<>>
    /\ mpc = "start"
    /\ lastCall = NoCall

\* ddi_username or ddi_password is not set: main returns.
MissingCredentials ==
    /\ mpc = "start"
    /\ mpc' = "returned"
    /\ UNCHANGED <<OUI_MAP, networks, labIdx, netIdx, blockMap, labMap, totals, lastCall>>
    /\ UNCHANGED spyVars

\* main reads the network list and the OUI table.
ReadFiles ==
    /\ mpc = "start"
    /\ networks' \in NetworkLists
    /\ OUI_MAP' \in OuiTables
    /\ mpc' = IF Len(networks') = 0 THEN "csv" ELSE "fetch"
    /\ UNCHANGED <<labIdx, netIdx, blockMap, labMap, totals, lastCall>>
    /\ UNCHANGED spyVars

\* The position after the network at (labIdx, netIdx).
Advance ==
    IF netIdx < Len(networks[labIdx][2])
      THEN /\ netIdx' = netIdx + 1
           /\ labIdx' = labIdx
           /\ mpc' = "fetch"
      ELSE /\ netIdx' = 1
           /\ labIdx' = labIdx + 1
           /\ mpc' = IF labIdx < Len(networks) THEN "fetch" ELSE "csv"

\* getInfoBlockForNetwork(network, args.cache, True) runs to its return.
Fetch ==
    /\ mpc = "fetch"
    /\ \E hasRange \in BOOLEAN :
       \E records \in (IF hasRange THEN RecordLists ELSE {<<>>}), now \in Nows :
        LET info == getInfoBlockForNetwork(hasRange, records, now, OUI_MAP)
        IN  /\ ~info.raised
            /\ lastCall' = CallFrame(networks[labIdx][2][netIdx], hasRange, records,
                                     now, info.retMap)
    /\ mpc' = "store"
    /\ UNCHANGED <<OUI_MAP, networks, labIdx, netIdx, blockMap, labMap, totals>>
    /\ UNCHANGED spyVars

\* The rest of the pass of the network loop of main: the returned result
\* goes into blockMap.
Store ==
    /\ mpc = "store"
    /\ blockMap' = StoreBlock(blockMap, networks[labIdx][1],
                              networks[labIdx][2][netIdx], lastCall.retMap)
    /\ lastCall' = NoCall
    /\ Advance
    /\ UNCHANGED <<OUI_MAP, networks, labMap, totals>>
    /\ UNCHANGED spyVars

\* strptime raises in getInfoBlockForNetwork: the exception leaves main.
FetchRaises ==
    /\ mpc = "fetch"
    /\ \E records \in RecordLists, now \in Nows :
        LET info == getInfoBlockForNetwork(TRUE, records, now, OUI_MAP)
        IN  /\ info.raised
            /\ lastCall' = CallFrame(networks[labIdx][2][netIdx], TRUE, records,
                                     now, info.retMap)
    /\ mpc' = "raised"
    /\ UNCHANGED <<OUI_MAP, networks, labIdx, netIdx, blockMap, labMap, totals>>
    /\ UNCHANGED spyVars

\* getResponseData gets an error response: sys.exit().
FetchExits ==
    /\ mpc = "fetch"
    /\ mpc' = "exited"
    /\ UNCHANGED <<OUI_MAP, networks, labIdx, netIdx, blockMap, labMap, totals, lastCall>>
    /\ UNCHANGED spyVars

\* retMap = CreateCsvFiles(blockMap)
WriteCsv ==
    /\ mpc = "csv"
    /\ labMap' = CreateCsvFiles(blockMap)
    /\ mpc' = "summary"
    /\ UNCHANGED <<OUI_MAP, networks, labIdx, netIdx, blockMap, totals, lastCall>>
    /\ UNCHANGED spyVars

\* The summary loop of main.
PrintSummary ==
    /\ mpc = "summary"
    /\ totals' = Summary(labMap)
    /\ mpc' = "done"
    /\ UNCHANGED <<OUI_MAP, networks, labIdx, netIdx, blockMap, labMap, lastCall>>
    /\ UNCHANGED spyVars

NextSpy == GetLeasesRaises \/ PollFull \/ PollDelta \/ Sleep

InitSpecSpy == InitSpy /\ InitMinerIdle

SpecSpy == InitSpecSpy /\ [][NextSpy]_vars

NextMiner ==
    \/ MissingCredentials
    \/ ReadFiles
    \/ Fetch
    \/ Store
    \/ FetchRaises
    \/ FetchExits
    \/ WriteCsv
    \/ PrintSummary

InitSpecMiner == InitMiner /\ InitSpyIdle

SpecMiner == InitSpecMiner /\ [][NextMiner]_vars

(***************************************************************************)
(* Properties of monitorLeases (SpecSpy)                                   *)
(***************************************************************************)
\* The latest iteration ran to its end (it did not raise).
Polled == iter >= 1 /\ pc # "raised"

\* The latest iteration began with a non-empty retained snapshot and
\* without alwaysSendAllData.
Steady == Polled /\ ~alwaysSendAllData /\ retainedBefore # EmptyMap

\* The addresses of snapshot cur that are absent from ref or whose start
\* differs from the one in ref, with their records in cur.
NewOrChanged(cur, ref) ==
    LET S == {m \in DOMAIN cur : m \notin DOMAIN ref \/ cur[m].start # ref[m].start}
    IN  [m \in S |-> cur[m]]

\* C4: without alwaysSendAllData, in an iteration that began with a
\* non-empty retained snapshot, whatever is passed to the sink is tagged
\* partial and holds exactly the addresses of the current snapshot that are
\* absent from the retained snapshot or whose start differs from the retained
\* one, each with its current record; a changed ip alone does not count.
C4_DeltaContent ==
    Steady =>
        \A i \in 1..Len(calls) :
            /\ calls[i].isDelta
            /\ calls[i].leaseMap = NewOrChanged(dhcpLeases, retainedBefore)

C4_Witness ==
    /\ Steady
    /\ Len(calls) = 1
    /\ \E m \in DOMAIN dhcpLeases \ DOMAIN calls[1].leaseMap :
            dhcpLeases[m].ip # retainedBefore[m].ip
    /\ \E m \in DOMAIN dhcpLeases : m \notin DOMAIN retainedBefore

\* C5: on the first iteration, and on every iteration with
\* alwaysSendAllData, the sink is invoked exactly once with the whole
\* current snapshot tagged full, and when the loop continues the retained
\* snapshot equals that snapshot.
C5_FullEmission ==
    (Polled /\ (iter = 1 \/ alwaysSendAllData)) =>
        /\ calls = <<[leaseMap |-> dhcpLeases, isDelta |-> FALSE]>>
        /\ pc \in {"sleep", "loop"} => previousLeases = dhcpLeases

C5_Witness ==
    /\ Polled /\ alwaysSendAllData /\ iter >= 2 /\ pc = "sleep"
    /\ retainedBefore # EmptyMap
    /\ dhcpLeases # retainedBefore
    /\ calls = <<[leaseMap |-> dhcpLeases, isDelta |-> FALSE]>>

\* C6 (as claimed): without alwaysSendAllData, every sink invocation after
\* the first iteration is tagged partial.
C6_FullOnlyOnFirstPoll ==
    (Polled /\ ~alwaysSendAllData /\ iter >= 2) =>
        \A i \in 1..Len(calls) : calls[i].isDelta

\* C7 (as claimed): the sink is invoked iff the computed result is
\* non-empty; it is never called with an empty lease mapping.
C7_NeverEmptyCall ==
    Polled =>
        /\ \A i \in 1..Len(calls) : calls[i].leaseMap # EmptyMap
        /\ Len(calls) = 1 <=>
             IF Steady THEN NewOrChanged(dhcpLeases, retainedBefore) # EmptyMap
                       ELSE dhcpLeases # EmptyMap

\* C7 (amended): the sink is invoked exactly when the result is full, or is
\* partial and non-empty: a partial result passed to the sink is never
\* empty, while a full result is passed even when the snapshot is empty.
C7_NeverEmptyDelta ==
    Polled =>
        /\ Len(calls) <= 1
        /\ \A i \in 1..Len(calls) : calls[i].isDelta => calls[i].leaseMap # EmptyMap
        /\ Len(calls) = 1 <=>
             (Steady => NewOrChanged(dhcpLeases, retainedBefore) # EmptyMap)

C7_Witness ==
    /\ Steady
    /\ calls = <<>>
    /\ dhcpLeases # EmptyMap
    /\ pc = "sleep"

\* C8 (as claimed): after every completed iteration the retained snapshot
\* equals the snapshot acquired in that iteration.
C8_ReplacedWholesale ==
    (Polled /\ pc = "sleep") => previousLeases = dhcpLeases

\* C8 (amended): after a full iteration the retained snapshot equals the
\* acquired snapshot; after a partial iteration only the entries of new or
\* start-changed addresses are overwritten with the acquired records, and
\* every other retained entry is kept as it was.
C8_UpdatedInPlace ==
    (Polled /\ pc = "sleep") =>
        IF Steady
          THEN /\ DOMAIN previousLeases = DOMAIN retainedBefore \cup DOMAIN dhcpLeases
               /\ \A m \in DOMAIN previousLeases :
                    previousLeases[m] =
                        IF m \in DOMAIN NewOrChanged(dhcpLeases, retainedBefore)
                          THEN dhcpLeases[m]
                          ELSE retainedBefore[m]
          ELSE previousLeases = dhcpLeases

C8_Witness ==
    /\ Steady /\ pc = "sleep"
    /\ \E m \in DOMAIN previousLeases : m \notin DOMAIN dhcpLeases
    /\ \E m \in DOMAIN dhcpLeases : m \notin DOMAIN retainedBefore

\* C9 (as claimed): every partial result is exactly the part of the current
\* snapshot that is new or start-changed relative to the snapshot acquired
\* by the preceding iteration, and an address absent from that snapshot is
\* reported when it appears in the current one.
C9_DeltaAgainstPrior ==
    (Steady /\ iter >= 2) =>
        /\ \A i \in 1..Len(calls) :
              calls[i].isDelta =>
                  calls[i].leaseMap = NewOrChanged(dhcpLeases, priorLeases)
        /\ \A m \in DOMAIN dhcpLeases \ DOMAIN priorLeases :
              \E i \in 1..Len(calls) : m \in DOMAIN calls[i].leaseMap

\* C9 (amended): every partial result is exactly the part of the current
\* snapshot that is new or start-changed relative to the retained snapshot,
\* which still holds the addresses that left earlier snapshots: an address
\* absent from the preceding snapshot is reported when it appears iff it is
\* absent from the retained snapshot or its start differs from the retained
\* one.
C9_DeltaAgainstRetained ==
    (Steady /\ iter >= 2) =>
        /\ \A i \in 1..Len(calls) :
              calls[i].isDelta =>
                  /\ DOMAIN calls[i].leaseMap \subseteq DOMAIN dhcpLeases
                  /\ \A m \in DOMAIN dhcpLeases :
                        m \in DOMAIN calls[i].leaseMap <=>
                            (m \notin DOMAIN retainedBefore
                             \/ dhcpLeases[m].start # retainedBefore[m].start)
        /\ \A m \in DOMAIN dhcpLeases \ DOMAIN priorLeases :
              (\E i \in 1..Len(calls) : m \in DOMAIN calls[i].leaseMap) <=>
                  (m \notin DOMAIN retainedBefore
                   \/ dhcpLeases[m].start # retainedBefore[m].start)

C9_Witness ==
    /\ Steady /\ iter >= 2
    /\ Len(calls) = 1
    /\ \E m \in DOMAIN dhcpLeases \ DOMAIN priorLeases :
            m \notin DOMAIN calls[1].leaseMap

\* C10: with interval < 1 monitorLeases ends after one iteration (one
\* acquisition, one sink invocation with the snapshot, no sleep), whatever
\* the snapshot and the flag; with interval >= 1 and no failed acquisition it
\* never returns, and every iteration acquires a snapshot and then sleeps.
C10_OneShotOrForever ==
    /\ interval < 1 =>
          /\ pc \in {"loop", "returned", "raised"}
          /\ pc = "loop" => iter = 0
          /\ sleeps = 0
          /\ pc = "returned" =>
                /\ iter = 1
                /\ calls = <<[leaseMap |-> dhcpLeases, isDelta |-> FALSE]>>
    /\ (interval >= 1 /\ pc # "raised") =>
          /\ pc \in {"loop", "sleep"}
          /\ ENABLED (PollFull \/ PollDelta \/ Sleep)
          /\ pc = "loop" => sleeps = iter
          /\ pc = "sleep" => iter = Min(sleeps + 1, MaxIter)

C10_Witness ==
    /\ pc = "returned"
    /\ interval < 0
    /\ alwaysSendAllData
    /\ dhcpLeases # EmptyMap
    /\ iter = 1 /\ sleeps = 0 /\ Len(calls) = 1

(***************************************************************************)
(* Properties of the report of MiceAndMenSpy.py (SpecMiner)                *)
(***************************************************************************)
\* CreateCsvFiles has returned its report.
Reported == mpc \in {"summary", "done"}

\* The labs of blockMap.
ReportLabs == {blockMap[l][1] : l \in 1..Len(blockMap)}

\* The classification results of a lab: its <<network, result>> items in
\* the order the networks were processed.
LabBlocks(lab) == DictGet(blockMap, lab)

\* The hardware addresses kept on some network of the lab.
LabAddrs(lab) ==
    UNION {{DictGet(LabBlocks(lab)[k][2], "All")[i][1] :
                i \in 1..Len(DictGet(LabBlocks(lab)[k][2], "All"))} :
           k \in 1..Len(LabBlocks(lab))}

\* The positions of the networks of the lab on which X was observed.
SeenAt(lab, X) ==
    {k \in 1..Len(LabBlocks(lab)) : DictHas(DictGet(LabBlocks(lab)[k][2], "All"), X)}

\* 'Duplicates' of the lab's report.
DuplicatesOf(lab) == DictGet(DictGet(labMap, lab), "Duplicates")

\* C1 (as claimed): an address observed on exactly one network of a lab is
\* never a key of that lab's 'Duplicates'.
C1_SingleNetworkNotDuplicate ==
    Reported =>
        \A lab \in ReportLabs : \A X \in LabAddrs(lab) :
            Cardinality(SeenAt(lab, X)) = 1 => ~DictHas(DuplicatesOf(lab), X)

\* C2 (as claimed): an address observed on network N1 and then on network
\* N2 of a lab, and on no other, has 'Duplicates'[X] = [N1, N2].
C2_DuplicateNetworksInOrder ==
    Reported =>
        \A lab \in ReportLabs : \A X \in LabAddrs(lab) :
            \A k1, k2 \in 1..Len(LabBlocks(lab)) :
                (k1 < k2 /\ SeenAt(lab, X) = {k1, k2}) =>
                    /\ DictHas(DuplicatesOf(lab), X)
                    /\ DictGet(DuplicatesOf(lab), X)
                         = <<LabBlocks(lab)[k1][1], LabBlocks(lab)[k2][1]>>

\* The number of addresses classified into the category on network k of
\* the lab.
ClassifiedCount(lab, k, type) ==
    IF DictHas(LabBlocks(lab)[k][2], type)
      THEN Len(DictGet(LabBlocks(lab)[k][2], type))
      ELSE 0

RECURSIVE SumClassified(_, _, _)
SumClassified(lab, type, k) ==
    IF k > Len(LabBlocks(lab)) THEN 0
    ELSE ClassifiedCount(lab, k, type) + SumClassified(lab, type, k + 1)

\* C3 (as claimed): the summary total of a category other than
\* 'Duplicates' is the sum over the lab's networks of the number of
\* addresses classified into it there; the total of 'Duplicates' is the
\* number of distinct addresses observed on more than one network.
C3_TotalsAreAddressCounts ==
    mpc = "done" =>
        \A lab \in ReportLabs :
            LET labTotals == DictGet(totals, lab)
            IN  \A t \in 1..Len(labTotals) :
                    labTotals[t][2] =
                        IF labTotals[t][1] = "Duplicates"
                          THEN Cardinality({X \in LabAddrs(lab) :
                                               Cardinality(SeenAt(lab, X)) > 1})
                          ELSE SumClassified(lab, labTotals[t][1], 1)

(***************************************************************************)
(* Properties of getInfoBlockForNetwork (SpecMiner)                        *)
(***************************************************************************)
\* getInfoBlockForNetwork has just returned lastCall.retMap.
Returned == mpc = "store"

\* The keys of category type of a classification result, as a set (empty
\* when the result has no such category).
KeySet(result, type) ==
    IF DictHas(result, type)
      THEN {DictGet(result, type)[i][1] : i \in 1..Len(DictGet(result, type))}
      ELSE {}

\* The categories of a classification result other than 'All'.
OtherCategories(result) == {result[j][1] : j \in 1..Len(result)} \ {"All"}

\* prefix equals, ignoring letter case, the leading Len(prefix) characters
\* of addr.
LeadsIgnoringCase(prefix, addr) ==
    /\ Len(addr) >= Len(prefix)
    /\ \A i \in 1..Len(prefix) : LowerChar(addr[i]) = LowerChar(prefix[i])

\* The positions of the categories of the table that have such a prefix.
MatchingPositions(addr, table) ==
    {j \in 1..Len(table) :
        \E p \in 1..Len(table[j][2]) : LeadsIgnoringCase(table[j][2][p], addr)}

\* The first such category in the table's order, 'Other' if there is none.
FirstCategory(addr, table) ==
    IF MatchingPositions(addr, table) = {} THEN "Other"
    ELSE table[CHOOSE j \in MatchingPositions(addr, table) :
                    \A k \in MatchingPositions(addr, table) : j <= k][1]

\* C11: every classified address is stored under the first category, in
\* the table's order, that has a prefix equal (ignoring case) to the
\* address's leading characters, under 'Other' if no category has one, and
\* under no other category; with the empty table that is 'Other'.
C11_FirstMatchingCategory ==
    Returned =>
        \A addr \in KeySet(lastCall.retMap, "All") :
            \A type \in OtherCategories(lastCall.retMap) :
                addr \in KeySet(lastCall.retMap, type) <=>
                    type = FirstCategory(addr, OUI_MAP)

C11_Witness ==
    /\ Returned
    /\ Len(OUI_MAP) = 2 /\ OUI_MAP[1][1] = "PDU"
    /\ Cardinality(MatchingPositions(<<"A", "b">>, OUI_MAP)) = 2
    /\ <<"A", "b">> \in KeySet(lastCall.retMap, "PDU")
    /\ <<"c">> \in KeySet(lastCall.retMap, "Other")

\* C12: in every returned classification result the keys of 'All' are the
\* disjoint union of the keys of the other categories: every kept address
\* is a key of 'All' and of exactly one other category.
C12_AllIsDisjointUnion ==
    Returned =>
        LET result == lastCall.retMap
        IN  /\ \A addr \in KeySet(result, "All") :
                  Cardinality({type \in OtherCategories(result) :
                                  addr \in KeySet(result, type)}) = 1
            /\ \A type \in OtherCategories(result) :
                  KeySet(result, type) \subseteq KeySet(result, "All")
            /\ \A j \in 1..Len(result) :
                  Cardinality(KeySet(result, result[j][1])) = Len(result[j][2])

C12_Witness ==
    /\ Returned
    /\ Len(OUI_MAP) = 2
    /\ Cardinality(KeySet(lastCall.retMap, "All")) = 2
    /\ Cardinality(KeySet(lastCall.retMap, "Other")) = 1
    /\ Cardinality(KeySet(lastCall.retMap, "VM")) = 1
    /\ KeySet(lastCall.retMap, "PDU") = {}

\* The time the latest call compares lastSeen with: now minus the window.
WindowStart == lastCall.now - WindowMonths * TicksPerMonth

\* The hardware addresses of the records of the latest call that have one.
RecordAddrs ==
    {lastCall.records[i].lastKnownClientIdentifier : i \in 1..Len(lastCall.records)}
        \ {<<>>}

\* C13: an address of the reservation list is in the network's 'All' iff
\* some record for it has lastSeen strictly after now minus the window (a
\* record exactly at that time does not count, one a tick later does); the
\* empty address never is.
C13_AllIffRecent ==
    Returned =>
        /\ \A addr \in RecordAddrs :
              addr \in KeySet(lastCall.retMap, "All") <=>
                  \E i \in 1..Len(lastCall.records) :
                      /\ lastCall.records[i].lastKnownClientIdentifier = addr
                      /\ lastCall.records[i].lastSeenDate.t > WindowStart
        /\ KeySet(lastCall.retMap, "All") \subseteq RecordAddrs

C13_Witness ==
    /\ Returned
    /\ \E i, j \in 1..Len(lastCall.records) :
          /\ lastCall.records[i].lastKnownClientIdentifier = <<"c">>
          /\ lastCall.records[i].lastSeenDate.t = WindowStart
          /\ lastCall.records[j].lastKnownClientIdentifier = <<"A", "b">>
          /\ lastCall.records[j].lastSeenDate.t = WindowStart + 1
    /\ KeySet(lastCall.retMap, "All") = {<<"A", "b">>}

\* Some record of the latest call has a hardware address and a timestamp
\* that does not parse.
UnparseableRecord ==
    \E i \in 1..Len(lastCall.records) :
        /\ Len(lastCall.records[i].lastKnownClientIdentifier) > 0
        /\ ~lastCall.records[i].lastSeenDate.ok

\* The network of the latest call has a classification result in blockMap.
CallStored ==
    \E l \in 1..Len(blockMap) : DictHas(blockMap[l][2], lastCall.network)

\* C14: a call whose records hold an address with an unparseable
\* timestamp does not return: the error leaves main, the network gets no
\* classification result (not the partial one either), no report and no
\* summary are made and nothing runs afterwards; a record without an
\* address never makes the call raise, whatever its timestamp.
C14_UnparseableAborts ==
    /\ Returned => ~UnparseableRecord
    /\ mpc = "raised" =>
          /\ UnparseableRecord
          /\ ~CallStored
          /\ labMap = <<>> /\ totals = <<>>
          /\ ~ENABLED (MissingCredentials \/ ReadFiles \/ Fetch \/ Store \/ FetchRaises
                       \/ FetchExits \/ WriteCsv \/ PrintSummary)

C14_Witness ==
    /\ mpc = "raised"
    /\ KeySet(lastCall.retMap, "All") # {}
    /\ Len(blockMap) = 1
    /\ ~CallStored

(***************************************************************************)
(* Further properties of monitorLeases (SpecSpy)                           *)
(***************************************************************************)
\* The addresses of the retained snapshot of the latest iteration that its
\* acquired snapshot does not have.
Absent == DOMAIN retainedBefore \ DOMAIN dhcpLeases

\* C15: in an iteration begun with a non-empty retained snapshot and
\* without alwaysSendAllData, an address of the retained snapshot that the
\* current snapshot lacks is in no mapping passed to the sink, and its
\* retained entry after the iteration is the one from before.
C15_AbsentKeptUnreported ==
    Steady =>
        \A m \in Absent :
            /\ \A i \in 1..Len(calls) : m \notin DOMAIN calls[i].leaseMap
            /\ m \in DOMAIN previousLeases
            /\ previousLeases[m] = retainedBefore[m]

C15_Witness ==
    /\ Steady
    /\ Absent # {}
    /\ Len(calls) = 1
    /\ DOMAIN calls[1].leaseMap = DOMAIN dhcpLeases

\* C16: once getLeases has raised, monitorLeases is left through the
\* exception: that iteration made no sink call, and no further poll, sink
\* call or sleep can happen.
C16_AcquisitionErrorEndsLoop ==
    acquireFailed =>
        /\ pc = "raised"
        /\ calls = <<>>
        /\ ~ENABLED (GetLeasesRaises \/ PollFull \/ PollDelta \/ Sleep)

C16_Witness ==
    /\ acquireFailed
    /\ iter = 2
    /\ sleeps = 1
    /\ previousLeases # EmptyMap

\* C17: without alwaysSendAllData and with interval >= 1, after every
\* iteration the retained snapshot has every address of every snapshot
\* acquired so far and every address it had before the iteration (so once
\* non-empty it stays non-empty), and for each address of the snapshot just
\* acquired its start is that snapshot's start.
C17_RetainedOnlyGrows ==
    (Polled /\ ~alwaysSendAllData /\ interval >= 1) =>
        /\ seenMacs \subseteq DOMAIN previousLeases
        /\ DOMAIN retainedBefore \subseteq DOMAIN previousLeases
        /\ retainedBefore # EmptyMap => previousLeases # EmptyMap
        /\ \A m \in DOMAIN dhcpLeases :
              previousLeases[m].start = dhcpLeases[m].start

C17_Witness ==
    /\ Polled /\ ~alwaysSendAllData /\ interval >= 1
    /\ retainedBefore # EmptyMap
    /\ dhcpLeases = EmptyMap
    /\ seenMacs = LeaseMacs
    /\ DOMAIN previousLeases = LeaseMacs

\* C18: without alwaysSendAllData, a poll that acquires the same non-empty
\* snapshot as the poll before it makes no sink call.
C18_SameSnapshotSilent ==
    (Polled /\ ~alwaysSendAllData /\ iter >= 2
        /\ dhcpLeases # EmptyMap /\ priorLeases = dhcpLeases) =>
            calls = <<>>

C18_Witness ==
    /\ Polled /\ ~alwaysSendAllData /\ iter >= 2
    /\ dhcpLeases # EmptyMap /\ priorLeases = dhcpLeases
    /\ previousLeases # dhcpLeases
    /\ calls = <<>>

====
